---- MODULE Spec2Model ----
(***************************************************************************)
(* Model of the db-plumbing document stores.                               *)
(*                                                                         *)
(*   Local Store  (db-plumbing-map, src/unnamed/part_001): an ES6 Map      *)
(*                wrapped by find / all / findAll / update / remove /      *)
(*                removeAll / bulk.                                        *)
(*   Remote Store (db-plumbing-rest, src/store.js): the same operations    *)
(*                projected onto HTTP calls, answered through checkStatus. *)
(*                                                                         *)
(* Spec  is the Local Store, SpecRemote the Remote Store.                  *)
(* SpecClient adds the client and IndexMap calls, SpecOrder a caller that *)
(* does not chain its calls.                                               *)
(* SpecTurns runs removeAll's then-callbacks turn by turn, SpecReads a    *)
(* caller that keeps the arrays it read.                                   *)
(***************************************************************************)
EXTENDS Integers, Sequences, FiniteSets, TLC

VARIABLES
    key,        \* Local Store: this.key
    idMap,      \* Local Store: this.idMap
    sorted,     \* Local Store: this.sorted
    last,       \* Local Store: the operation last performed and its completion
    jobs,       \* Local Store: the then-callbacks queued and not yet run
    held,       \* Local Store: an array a read returned, kept by the caller
    inflight,   \* Remote Store: the requests handed to fetch and not yet answered
    rlast,      \* Remote Store: the operation last issued or settled, and its completion
    headers,    \* Client: this.headers
    indexMap,   \* IndexMap: the encoder registered for each index name
    stores,     \* the endpoints client.getStore has been called for
    debugLog,   \* whether the module's debug instance has a log method
    chained     \* whether the caller awaits each completion before its next call

lvars == <<key, idMap, sorted, last, jobs, held>>
rvars == <<inflight, rlast, headers, indexMap, stores, debugLog, chained>>
vars == <<key, idMap, sorted, last, jobs, held, inflight, rlast, headers, indexMap,
          stores, debugLog, chained>>

----------------------------------------------------------------------------
(* Bounds *)

MaxKey == 2
MaxPatchLen == 1
MaxBodyLen == 1
MaxInFlight == 2
MaxJobs == 1

----------------------------------------------------------------------------
(* Values *)

\* the JavaScript value undefined, as a key or as a field value
Undefined == 0

Keys == 1..MaxKey

\* the values of a ('hello', 'goodbye') and of b ('world', 'pizza') the tests
\* use, numbered
AVals == {1, 2}
BVals == {1, 2}

\* new Simple(uid, a, b)
Simple == [uid : Keys, a : AVals, b : BVals]

\* the key-extraction functions a store is constructed with:
\* the default e => e.uid, and a caller-supplied one, o => o.a
KeyFns == {"uid", "a"}

KeyOf(kf, d) == IF kf = "uid" THEN d.uid ELSE d.a

\* defaultComparator(key, a, b); no order relation holds of undefined
defaultComparator(kf, a, b) ==
    IF KeyOf(kf, a) = Undefined \/ KeyOf(kf, b) = Undefined THEN 0
    ELSE IF KeyOf(kf, a) < KeyOf(kf, b) THEN -1
    ELSE IF KeyOf(kf, a) > KeyOf(kf, b) THEN 1
    ELSE 0

\* function byA(a, simple) { return simple.a == a; }
byA(a, simple) == simple.a = a

Indexes == {"byA"}

ApplyIndex(index, value, item) ==
    CASE index = "byA" -> byA(value, item)

----------------------------------------------------------------------------
(* The ES6 Map: a sequence of entries [k, v] in insertion order, keys unique *)

MapKeys(m) == {m[i].k : i \in 1..Len(m)}

MapHas(m, k) == \E i \in 1..Len(m) : m[i].k = k

MapIndex(m, k) == CHOOSE i \in 1..Len(m) : m[i].k = k

\* Map.prototype.get; only called on a key the map has
MapGet(m, k) == m[MapIndex(m, k)].v

\* Map.prototype.set: an existing key keeps its position, a new key is appended
MapSet(m, k, v) ==
    IF MapHas(m, k)
    THEN [m EXCEPT ![MapIndex(m, k)] = [k |-> k, v |-> v]]
    ELSE Append(m, [k |-> k, v |-> v])

\* Map.prototype.delete
MapDelete(m, k) == SelectSeq(m, LAMBDA e : e.k # k)

\* Array.from(map.values())
MapValues(m) == [i \in 1..Len(m) |-> m[i].v]

----------------------------------------------------------------------------
(* Completion values *)

Resolved(v) == [st |-> "resolved", val |-> v]

\* new DoesNotExist(key)
DoesNotExist(k) == [st |-> "rejected", err |-> "DoesNotExist", key |-> k]

----------------------------------------------------------------------------
(* The patch (typed-patch Operations.Map): an ordered sequence of          *)
(* (key, operation) pairs; operation is Rpl(value), Mrg({b: Rpl(x)}) or    *)
(* DEL.  The engine is external to the store and is modelled from its      *)
(* contract.                                                               *)

Rpl(d) == [t |-> "Rpl", d |-> d, x |-> Undefined]
MrgB(x) == [t |-> "Mrg", d |-> [uid |-> Undefined, a |-> Undefined, b |-> x], x |-> x]
DEL == [t |-> "Del", d |-> [uid |-> Undefined, a |-> Undefined, b |-> Undefined], x |-> Undefined]

PatchOps(k) == {Rpl(d) : d \in {e \in Simple : e.uid = k}}
                 \cup {MrgB(x) : x \in BVals} \cup {DEL}

PatchEntries == UNION {{[k |-> k, op |-> o] : o \in PatchOps(k)} : k \in Keys}

RECURSIVE SeqsUpTo(_, _)
SeqsUpTo(S, n) ==
    IF n = 0 THEN {<<>>}
    ELSE LET shorter == SeqsUpTo(S, n - 1)
         IN shorter \cup {Append(q, e) : q \in {r \in shorter : Len(r) = n - 1}, e \in S}

Patches == SeqsUpTo(PatchEntries, MaxPatchLen)

\* entries ordered by key, the engine's default comparison
RECURSIVE SortByKey(_)
SortByKey(m) ==
    IF m = <<>> THEN <<>>
    ELSE LET least == CHOOSE i \in 1..Len(m) : \A j \in 1..Len(m) : m[i].k <= m[j].k
         IN <<m[least]>> \o SortByKey(SubSeq(m, 1, least - 1) \o SubSeq(m, least + 1, Len(m)))

\* a new entry goes before the first entry with a greater key
InsertByKey(m, e) ==
    LET greater == {i \in 1..Len(m) : m[i].k > e.k}
    IN IF greater = {} THEN Append(m, e)
       ELSE LET at == CHOOSE i \in greater : \A j \in greater : i <= j
            IN SubSeq(m, 1, at - 1) \o <<e>> \o SubSeq(m, at, Len(m))

PatchValue(old, op) ==
    CASE op.t = "Rpl" -> op.d
      [] op.t = "Mrg" -> [old EXCEPT !.b = op.x]

ApplyEntry(m, e) ==
    CASE e.op.t = "Del" -> MapDelete(m, e.k)
      [] e.op.t = "Rpl" ->
            IF MapHas(m, e.k) THEN MapSet(m, e.k, e.op.d)
            ELSE InsertByKey(m, [k |-> e.k, v |-> e.op.d])
      [] e.op.t = "Mrg" ->
            IF MapHas(m, e.k) THEN MapSet(m, e.k, PatchValue(MapGet(m, e.k), e.op))
            ELSE InsertByKey(m, [k |-> e.k, v |-> e.op.d])

RECURSIVE ApplyEntries(_, _)
ApplyEntries(m, p) ==
    IF p = <<>> THEN m ELSE ApplyEntries(ApplyEntry(m, Head(p)), Tail(p))

\* patch.patch(map, { sorted: hint }): a map flagged unsorted is put in key
\* order first; the entries are then applied in sequence order
PatchEngine(p, m, hint) ==
    ApplyEntries(IF hint THEN m ELSE SortByKey(m), p)

----------------------------------------------------------------------------
(* Remote Store: requests, responses and checkStatus *)

\* encodeURIComponent(uid): the decimal text of a key
KeyStr(k) == <<"0", "1", "2", "3", "4">>[k + 1]

\* JavaScript values read from a body: null, true, an object with the fields
\* of a document, an array of such objects
JNull == [t |-> "null", v |-> <<>>]
JTrue == [t |-> "true", v |-> <<>>]
JObject(d) == [t |-> "obj", v |-> <<d>>]
JArray(ds) == [t |-> "arr", v |-> ds]

\* a body that is not JSON text
BadBody == [t |-> "bad", v |-> <<>>]

Bodies == {BadBody, JNull, JTrue} \cup {JObject(d) : d \in Simple}
             \cup {JArray(ds) : ds \in SeqsUpTo(Simple, MaxBodyLen)}

Statuses == {200, 201, 204, 404, 500}

ReasonPhrase(status) ==
    CASE status = 200 -> "OK"
      [] status = 201 -> "Created"
      [] status = 204 -> "No Content"
      [] status = 404 -> "Not Found"
      [] status = 500 -> "Internal Server Error"

\* the status text is the server's reason phrase, empty where the protocol
\* carries none
StatusTexts(status) == {ReasonPhrase(status), ""}

\* a 200 answer carries any body, a 204 answer none, an error answer a page
\* that is not JSON
EmptyBody == [t |-> "empty", v |-> <<>>]

BodiesOf(status) ==
    IF status = 200 THEN Bodies
    ELSE IF status = 204 THEN {EmptyBody}
    ELSE {BadBody}

Responses ==
    UNION {[status : {st}, statusText : StatusTexts(st), body : BodiesOf(st)] : st \in Statuses}

\* const client = new Client('http://127.0.0.1:8666')
BaseUrl == "http://127.0.0.1:8666"

\* client.getStore("", ...), client.getStore('users', ...)
Endpoints == {"", "users"}

\* DEFAULT_HEADERS, and a header the client does not have
HeaderNames == {"Content-Type", "Authorization"}
NoHeader == "absent"
DefaultHeaders ==
    [n \in HeaderNames |-> IF n = "Content-Type" THEN "application/json" ELSE NoHeader]

\* the header sets updateHeaders is called with
HeaderUpdates ==
    {"Authorization" :> "Bearer 1", "Authorization" :> "Bearer 2",
     "Content-Type" :> "text/plain"}

\* Object.assign(target, source)
ObjectAssign(target, source) ==
    [n \in HeaderNames |-> IF n \in DOMAIN source THEN source[n] ELSE target[n]]

\* _addHeaders with the default headers in place of this.headers
RequestHeaders_Defaults(h) == DefaultHeaders

\* _addHeaders(request): new Headers(this.headers)
RequestHeaders(h) == h

\* the field names addSimpleField is called with; an index without encoder
FieldNames == {"a", "b"}
NoEncoder == "none"

\* new IndexMap()
EmptyIndexMap == [i \in Indexes |-> NoEncoder]

\* INDEX_MAP = new IndexMap().addSimpleField(byA, 'a')
INDEX_MAP == [EmptyIndexMap EXCEPT !["byA"] = "a"]

\* _singleResourceURI(uid)
SingleResourceURI(endpoint, uid) ==
    [path |-> <<endpoint, "items", KeyStr(uid)>>, query |-> <<>>]

\* the encoder addSimpleField registers: name=value, both percent-encoded
IndexMapEntry(index, value) == <<indexMap[index], KeyStr(value)>>

\* _multipleResourceURI(op, index, value)
MultipleResourceURI(endpoint, op, index, value) ==
    [path |-> <<endpoint, op, index>>, query |-> IndexMapEntry(index, value)]

\* _bulkResourceURI()
BulkResourceURI(endpoint) == [path |-> <<endpoint, "bulk">>, query |-> <<>>]

NoBody == [t |-> "none", v |-> <<>>]

\* getGetRequest / getDeleteRequest / getPostRequest / getPutRequest
ClientRequest(method, url, body) ==
    [method |-> method, base |-> BaseUrl, url |-> url,
     headers |-> RequestHeaders(headers), body |-> body]

\* the request each operation hands to fetch
RemoteRequest(o) ==
    CASE o.op = "find" ->
            ClientRequest("GET", SingleResourceURI(o.store, o.arg), NoBody)
      [] o.op = "findAll" ->
            ClientRequest("GET",
                MultipleResourceURI(o.store, "findAll", o.arg.index, o.arg.value), NoBody)
      [] o.op = "update" ->
            ClientRequest("PUT", SingleResourceURI(o.store, o.arg.uid), JObject(o.arg))
      [] o.op = "remove" ->
            ClientRequest("DELETE", SingleResourceURI(o.store, o.arg), NoBody)
      [] o.op = "removeAll" ->
            ClientRequest("DELETE",
                MultipleResourceURI(o.store, "removeAll", o.arg.index, o.arg.value), NoBody)
      [] o.op = "bulk" ->
            ClientRequest("POST", BulkResourceURI(o.store), [t |-> "patch", v |-> o.arg])

\* what stops an operation before its fetch call:
\* this.index_map[index.name] is not a function; debug.log is not a function
Throws(o) ==
    \/ o.op \in {"findAll", "removeAll"} /\ indexMap[o.arg.index] = NoEncoder
    \/ o.op \in {"remove", "removeAll"} /\ ~debugLog

\* new DoesNotExist(response.statusText), with error.response = response
RemoteDoesNotExist(response) ==
    [st |-> "rejected", err |-> "DoesNotExist", key |-> response.statusText,
     response |-> response]

\* new Error(response.statusText), with error.response = response
RemoteError(response) ==
    [st |-> "rejected", err |-> "Error", message |-> response.statusText,
     response |-> response]

\* response.json(): a promise, rejected when the body is not JSON text
ResponseJson(response) ==
    IF response.body.t = "bad"
    THEN [st |-> "rejected", err |-> "SyntaxError"]
    ELSE Resolved(response.body)

\* checkStatus without the 404 branch
CheckStatus_No404(response) ==
    IF response.status = 204 THEN Resolved(JTrue)
    ELSE IF response.status = 200 THEN ResponseJson(response)
    ELSE RemoteError(response)

\* checkStatus(response)
CheckStatus(response) ==
    IF response.status = 204 THEN Resolved(JTrue)
    ELSE IF response.status = 200 THEN ResponseJson(response)
    ELSE IF response.status = 404 THEN RemoteDoesNotExist(response)
    ELSE RemoteError(response)

UndefinedFields == [uid |-> Undefined, a |-> Undefined, b |-> Undefined]

\* static fromJSON({uid,a,b}) { return new Simple(uid,a,b); }
\* destructuring null throws; a value without the fields yields undefined
FromJSON(val) ==
    IF val.t = "null" THEN [st |-> "rejected", err |-> "TypeError"]
    ELSE IF val.t = "obj" THEN Resolved(val.v[1])
    ELSE Resolved(UndefinedFields)

\* result => result.map(item => this.type.fromJSON(item))
MapFromJSON(val) ==
    IF val.t # "arr" THEN [st |-> "rejected", err |-> "TypeError"]
    ELSE Resolved([i \in 1..Len(val.v) |-> FromJSON(JObject(val.v[i])).val])

\* the result map _doGet applies after checkStatus
ResultMap(op, val) ==
    CASE op = "find" -> FromJSON(val)
      [] op = "findAll" -> MapFromJSON(val)
      [] OTHER -> Resolved(val)

\* fetch(request).then(checkStatus).then(resultmap)
Completion(op, response) ==
    LET checked == CheckStatus(response)
    IN IF checked.st = "rejected" THEN checked ELSE ResultMap(op, checked.val)

NoRequest == [method |-> "none", base |-> "", url |-> [path |-> <<>>, query |-> <<>>],
              headers |-> DefaultHeaders, body |-> NoBody]

NoResponse == [status |-> 0, statusText |-> "", body |-> EmptyBody]

\* rlast: the operation, the request it handed to fetch and how many it handed,
\* the answer, its position among the requests in flight, the completion
NoRemoteOp == [store |-> "", op |-> "none", arg |-> Undefined, request |-> NoRequest,
               fetches |-> 0, answered |-> FALSE, pos |-> 0, response |-> NoResponse,
               result |-> Resolved(JTrue)]

OpsOf(endpoints, patches) ==
    [store : endpoints, op : {"find", "remove"}, arg : Keys]
      \cup [store : endpoints, op : {"findAll", "removeAll"},
            arg : [index : Indexes, value : AVals]]
      \cup [store : endpoints, op : {"update"}, arg : Simple]
      \cup [store : endpoints, op : {"bulk"}, arg : patches]

\* bulk forwards patch.toJSON() without looking into it: the patches of at
\* most one entry stand for all
RemotePatches == {patch \in Patches : Len(patch) <= 1}

RemoteOps == OpsOf({""}, RemotePatches)

\* the promise an operation returns is pending until its chain settles
\* (mutant: settled at once)
IssuedResult_Settled == Resolved(JTrue)

IssuedResult == [st |-> "pending"]

\* find / findAll / update / remove / removeAll / bulk up to the fetch call.
\* A chained caller issues an operation once it has taken the completion of
\* the one before.
Issue(o) ==
    /\ o.store \in stores
    /\ Len(inflight) < MaxInFlight
    /\ chained => rlast.op = "none"
    /\ IF Throws(o)
       THEN /\ inflight' = inflight
            /\ rlast' = [NoRemoteOp EXCEPT !.store = o.store, !.op = o.op, !.arg = o.arg,
                            !.result = [st |-> "thrown", err |-> "TypeError"]]
       ELSE /\ inflight' = Append(inflight, [o |-> o, request |-> RemoteRequest(o)])
            /\ rlast' = [NoRemoteOp EXCEPT !.store = o.store, !.op = o.op, !.arg = o.arg,
                            !.request = RemoteRequest(o), !.fetches = 1,
                            !.pos = Len(inflight) + 1, !.result = IssuedResult]
    /\ UNCHANGED <<lvars, headers, indexMap, stores, debugLog, chained>>

RemoveAt(q, i) == SubSeq(q, 1, i - 1) \o SubSeq(q, i + 1, Len(q))

\* the server answers a request in flight and the promise chain settles,
\* once the caller has taken the completion that settled before
Respond(i, response) ==
    /\ i \in 1..Len(inflight)
    /\ rlast.op = "none" \/ rlast.result.st = "pending"
    /\ inflight' = RemoveAt(inflight, i)
    /\ rlast' = [NoRemoteOp EXCEPT !.store = inflight[i].o.store, !.op = inflight[i].o.op,
                    !.arg = inflight[i].o.arg, !.request = inflight[i].request,
                    !.fetches = 1, !.answered = TRUE, !.pos = i, !.response = response,
                    !.result = Completion(inflight[i].o.op, response)]
    /\ UNCHANGED <<lvars, headers, indexMap, stores, debugLog, chained>>

\* fetch rejects: the request never gets an answer
FetchFails(i) ==
    /\ i \in 1..Len(inflight)
    /\ rlast.op = "none" \/ rlast.result.st = "pending"
    /\ inflight' = RemoveAt(inflight, i)
    /\ rlast' = [NoRemoteOp EXCEPT !.store = inflight[i].o.store, !.op = inflight[i].o.op,
                    !.arg = inflight[i].o.arg, !.request = inflight[i].request,
                    !.fetches = 1, !.pos = i,
                    !.result = [st |-> "rejected", err |-> "FetchError"]]
    /\ UNCHANGED <<lvars, headers, indexMap, stores, debugLog, chained>>

\* the caller takes the completion (its then-callback, or its catch)
ThenRemote ==
    /\ rlast.op # "none"
    /\ rlast.result.st # "pending"
    /\ rlast' = NoRemoteOp
    /\ UNCHANGED <<lvars, inflight, headers, indexMap, stores, debugLog, chained>>

\* client.getStore(endpoint, type, index_map)
GetStore(endpoint) ==
    /\ endpoint \notin stores
    /\ stores' = stores \cup {endpoint}
    /\ UNCHANGED <<lvars, inflight, rlast, headers, indexMap, debugLog, chained>>

\* addSimpleField(index, name)
AddSimpleField(index, name) ==
    /\ indexMap' = [indexMap EXCEPT ![index] = name]
    /\ UNCHANGED <<lvars, inflight, rlast, headers, stores, debugLog, chained>>

\* updateHeaders(headers)
UpdateHeaders(h) ==
    /\ headers' = ObjectAssign(headers, h)
    /\ UNCHANGED <<lvars, inflight, rlast, indexMap, stores, debugLog, chained>>

\* the state of the local store the remote specifications leave alone
LocalIdle ==
    /\ key = "uid"
    /\ idMap = <<>>
    /\ sorted = TRUE
    /\ last = [op |-> "none", arg |-> Undefined, hint |-> TRUE, result |-> Resolved(TRUE)]
    /\ jobs = <<>>
    /\ held = <<>>

\* one store on the tests' client and index map, its caller chaining the calls
InitRemote ==
    /\ LocalIdle
    /\ inflight = <<>>
    /\ rlast = NoRemoteOp
    /\ headers = DefaultHeaders
    /\ indexMap = INDEX_MAP
    /\ stores = {""}
    /\ debugLog \in BOOLEAN
    /\ chained = TRUE

NextRemote ==
    \/ ThenRemote
    \/ \E o \in RemoteOps : Issue(o)
    \/ \E response \in Responses : Respond(1, response)
    \/ FetchFails(1)

SpecRemote == InitRemote /\ [][NextRemote]_vars

\* the calls made on stores of either endpoint, and the answers they get
ClientOps == OpsOf(Endpoints, {<<>>})

ClientResponses == {response \in Responses :
                        response.status \in {204, 404} /\ response.statusText # ""}

\* a new client and a new IndexMap; stores are built from them, encoders are
\* registered and headers updated while the stores are in use
InitClient ==
    /\ LocalIdle
    /\ inflight = <<>>
    /\ rlast = NoRemoteOp
    /\ headers = DefaultHeaders
    /\ indexMap = EmptyIndexMap
    /\ stores = {}
    /\ debugLog \in BOOLEAN
    /\ chained = TRUE

NextClient ==
    \/ ThenRemote
    \/ \E endpoint \in Endpoints : GetStore(endpoint)
    \/ \E index \in Indexes, name \in FieldNames : AddSimpleField(index, name)
    \/ \E h \in HeaderUpdates : UpdateHeaders(h)
    \/ \E o \in ClientOps : Issue(o)
    \/ \E response \in ClientResponses : Respond(1, response)
    \/ FetchFails(1)

SpecClient == InitClient /\ [][NextClient]_vars

\* the calls of a caller that either chains its calls or issues them
\* without waiting, and the answers, which come in any order
OrderOps == {o \in RemoteOps : o.op \in {"find", "remove"}}

OrderResponses == {response \in Responses :
                       response.status \in {204, 404} /\ response.statusText # ""}

InitOrder ==
    /\ LocalIdle
    /\ inflight = <<>>
    /\ rlast = NoRemoteOp
    /\ headers = DefaultHeaders
    /\ indexMap = INDEX_MAP
    /\ stores = {""}
    /\ debugLog \in BOOLEAN
    /\ chained \in BOOLEAN

NextOrder ==
    \/ ThenRemote
    \/ \E o \in OrderOps : Issue(o)
    \/ \E i \in 1..MaxInFlight, response \in OrderResponses : Respond(i, response)
    \/ \E i \in 1..MaxInFlight : FetchFails(i)

SpecOrder == InitOrder /\ [][NextOrder]_vars

----------------------------------------------------------------------------
(* Local Store *)

\* the operation last performed on the store: its name, its argument, the
\* completion it returned and, for bulk, the sorted option handed to the engine
NoOp == [op |-> "none", arg |-> Undefined, hint |-> TRUE, result |-> Resolved(TRUE)]

Done(op, arg, result) ==
    [op |-> op, arg |-> arg, hint |-> TRUE, result |-> result]

\* constructor(type, key = e=>e.uid, comparator = ...)
Init ==
    /\ key \in KeyFns
    /\ idMap = <<>>
    /\ sorted = TRUE
    /\ last = NoOp
    /\ jobs = <<>>
    /\ held = <<>>
    /\ inflight = <<>>
    /\ rlast = NoRemoteOp
    /\ headers = DefaultHeaders
    /\ indexMap = INDEX_MAP
    /\ stores = {}
    /\ debugLog = TRUE
    /\ chained = TRUE

\* find(key)
FindResult(m, k) ==
    IF ~MapHas(m, k) THEN DoesNotExist(k) ELSE Resolved(MapGet(m, k))

Find(k) ==
    /\ last.op = "none"
    /\ last' = Done("find", k, FindResult(idMap, k))
    /\ UNCHANGED <<key, idMap, sorted, jobs, held, rvars>>

\* get all()
AllResult(m) == Resolved(MapValues(m))

All ==
    /\ last.op = "none"
    /\ last' = Done("all", Undefined, AllResult(idMap))
    /\ UNCHANGED <<key, idMap, sorted, jobs, held, rvars>>

\* findAll without the filter
FindAllResult_NoFilter(m, index, value) == Resolved(AllResult(m).val)

\* findAll(index, value): all.filter(item => index(value, item))
FindAllResult(m, index, value) ==
    Resolved(SelectSeq(AllResult(m).val, LAMBDA item : ApplyIndex(index, value, item)))

FindAll(index, value) ==
    /\ last.op = "none"
    /\ last' = Done("findAll", [index |-> index, value |-> value],
                    FindAllResult(idMap, index, value))
    /\ UNCHANGED <<key, idMap, sorted, jobs, held, rvars>>

\* an array handed out earlier, were it a view of the map's values
HeldAfter_View(h, m) == MapValues(m)

\* Array.from(this.idMap.values()) builds a new array on every read: no
\* operation on the map reaches an array handed out earlier
HeldAfter(h, m) == h

\* update(object)
UpdateKey(kf, object) == object.uid

UpdateSorted(m, s, k) == IF ~MapHas(m, k) THEN FALSE ELSE s

Update(object) ==
    /\ last.op = "none"
    /\ sorted' = UpdateSorted(idMap, sorted, UpdateKey(key, object))
    /\ idMap' = MapSet(idMap, UpdateKey(key, object), object)
    /\ last' = Done("update", object, Resolved(TRUE))
    /\ held' = HeldAfter(held, idMap')
    /\ UNCHANGED <<key, jobs, rvars>>

\* remove(key): the test is (!this.idMap.get(key)) === undefined, a boolean
\* compared with undefined
RemoveTest(m, k) ==
    LET negated == ~MapHas(m, k)
    IN negated \notin BOOLEAN

Remove(k) ==
    /\ last.op = "none"
    /\ IF RemoveTest(idMap, k)
       THEN /\ idMap' = MapDelete(idMap, k)
            /\ last' = Done("remove", k, Resolved(TRUE))
       ELSE /\ idMap' = idMap
            /\ last' = Done("remove", k, Resolved(FALSE))
    /\ held' = HeldAfter(held, idMap')
    /\ UNCHANGED <<key, sorted, jobs, rvars>>

\* removeAll(index, value), with its then-callback.
\* for (let item in items) this.idMap.delete(item.uid): item ranges over the
\* array's index names, whose uid is undefined
RECURSIVE DeleteItems(_, _)
DeleteItems(m, n) ==
    IF n = 0 THEN m ELSE DeleteItems(MapDelete(m, Undefined), n - 1)

RemoveAll(index, value) ==
    /\ last.op = "none"
    /\ LET items == FindAllResult(idMap, index, value).val
       IN IF Len(items) = 0
          THEN /\ idMap' = idMap
               /\ last' = Done("removeAll", [index |-> index, value |-> value],
                               Resolved(FALSE))
          ELSE /\ idMap' = DeleteItems(idMap, Len(items))
               /\ last' = Done("removeAll", [index |-> index, value |-> value],
                               Resolved(TRUE))
    /\ held' = HeldAfter(held, idMap')
    /\ UNCHANGED <<key, sorted, jobs, rvars>>

\* bulk telling the engine the opposite of the sorted flag
BulkHint_Inverted(s) == ~s

\* bulk always telling the engine the collection is sorted
BulkHint_AlwaysSorted(s) == TRUE

\* bulk(patch)
BulkHint(s) == s

\* bulk dropping the engine's result
BulkAdopt_Dropped(m, result) == m

BulkAdopt(m, result) == result

Bulk(patch) ==
    /\ last.op = "none"
    /\ idMap' = BulkAdopt(idMap, PatchEngine(patch, idMap, BulkHint(sorted)))
    /\ sorted' = TRUE
    /\ last' = [Done("bulk", patch, Resolved(Len(patch))) EXCEPT !.hint = BulkHint(sorted)]
    /\ held' = HeldAfter(held, idMap')
    /\ UNCHANGED <<key, jobs, rvars>>

\* the errors patch.patch can throw, and the patches it throws on: what the
\* patch holds makes no difference to a call that fails, so those of at most
\* one entry stand for all
EngineErrors == {"TypeError", "RangeError"}

ThrowingPatches == {patch \in Patches : Len(patch) <= 1}

\* a version of bulk that sets this.sorted before calling the engine
SortedAfterThrow_Set(s) == TRUE

\* an exception leaves bulk at the patch.patch call: the statements after it
\* do not run
SortedAfterThrow(s) == s

\* bulk(patch) when patch.patch throws e: the assignment to this.idMap and
\* this.sorted = true are not reached, no promise is returned
BulkThrows(patch, e) ==
    /\ last.op = "none"
    /\ idMap' = idMap
    /\ sorted' = SortedAfterThrow(sorted)
    /\ last' = [Done("bulk", patch, [st |-> "thrown", err |-> e, raised |-> e])
                    EXCEPT !.hint = BulkHint(sorted)]
    /\ UNCHANGED <<key, jobs, held, rvars>>

\* the caller's then-callback takes the completion; the caller chains its
\* operations, issuing the next one from there
Then ==
    /\ last.op # "none"
    /\ last.result.st # "pending"
    /\ last' = NoOp
    /\ UNCHANGED <<key, idMap, sorted, jobs, held, rvars>>

Next ==
    \/ Then
    \/ \E k \in Keys : Find(k)
    \/ All
    \/ \E v \in AVals : FindAll("byA", v)
    \/ \E d \in Simple : Update(d)
    \/ \E k \in Keys : Remove(k)
    \/ \E v \in AVals : RemoveAll("byA", v)
    \/ \E p \in Patches : Bulk(p)
    \/ \E p \in ThrowingPatches, e \in EngineErrors : BulkThrows(p, e)

Spec == Init /\ [][Next]_vars

----------------------------------------------------------------------------
(* Local Store, turn by turn: removeAll's then-callbacks run after the call *)
(* has returned, and a caller need not wait for them                        *)

\* the promise removeAll returns while its callbacks are queued
Queued == [st |-> "pending"]

\* the documents updated here: those of key 1 and one without uid, as find
\* returns it after a merge into an absent key
TurnDocs == {d \in Simple : d.uid = 1 /\ d.b = 1}
              \cup {[uid |-> Undefined, a |-> 1, b |-> 1]}

TurnPatches == {<<>>, <<[k |-> 1, op |-> DEL]>>}

\* new Store(Simple)
InitTurns == Init /\ key = "uid"

\* findAll's callback filtering the map as it is when the callback runs
FilterInput_Current(all, m) == MapValues(m)

\* findAll's callback filters the array this.all built during the call
FilterInput(all, m) == all

\* removeAll(index, value) up to its return: this.all is read, the two
\* then-callbacks are chained on it, a pending promise is returned
RemoveAllCall(index, value) ==
    /\ last.op = "none"
    /\ Len(jobs) < MaxJobs
    /\ jobs' = Append(jobs, [step |-> "filter", items |-> AllResult(idMap).val,
                              index |-> index, value |-> value, awaited |-> TRUE])
    /\ last' = Done("removeAll", [index |-> index, value |-> value], Queued)
    /\ UNCHANGED <<key, idMap, sorted, held, rvars>>

\* all => all.filter(item => index(value, item)): its result settles
\* findAll's promise, which queues removeAll's callback
RunFilter ==
    /\ jobs # <<>>
    /\ Head(jobs).step = "filter"
    /\ jobs' = Append(Tail(jobs),
                  [Head(jobs) EXCEPT !.step = "delete",
                      !.items = SelectSeq(FilterInput(Head(jobs).items, idMap),
                          LAMBDA item : ApplyIndex(Head(jobs).index, Head(jobs).value, item))])
    /\ UNCHANGED <<key, idMap, sorted, last, held, rvars>>

\* items => { ... for (let item in items) this.idMap.delete(item.uid) ... }
RunDelete ==
    /\ jobs # <<>>
    /\ Head(jobs).step = "delete"
    /\ jobs' = Tail(jobs)
    /\ idMap' = DeleteItems(idMap, Len(Head(jobs).items))
    /\ held' = HeldAfter(held, idMap')
    /\ last' = IF Head(jobs).awaited
               THEN Done("removeAll", last.arg, Resolved(Len(Head(jobs).items) # 0))
               ELSE last
    /\ UNCHANGED <<key, sorted, rvars>>

\* the caller goes on without waiting for removeAll's promise
MoveOn ==
    /\ last.result.st = "pending"
    /\ last' = NoOp
    /\ jobs' = [i \in 1..Len(jobs) |-> [jobs[i] EXCEPT !.awaited = FALSE]]
    /\ UNCHANGED <<key, idMap, sorted, held, rvars>>

NextTurns ==
    \/ Then
    \/ MoveOn
    \/ \E d \in TurnDocs : Update(d)
    \/ \E k \in Keys : Remove(k)
    \/ \E p \in TurnPatches : Bulk(p)
    \/ \E v \in AVals : RemoveAllCall("byA", v)
    \/ RunFilter
    \/ RunDelete

SpecTurns == InitTurns /\ [][NextTurns]_vars

\* the caller's then-callback keeps the array all or findAll resolved with
Keep ==
    /\ last.op \in {"all", "findAll"}
    /\ held' = last.result.val
    /\ last' = NoOp
    /\ UNCHANGED <<key, idMap, sorted, jobs, rvars>>

\* a caller that reads, keeps what it read and goes on changing the store
NextReads ==
    \/ Then
    \/ Keep
    \/ \E k \in Keys : Find(k)
    \/ All
    \/ \E v \in AVals : FindAll("byA", v)
    \/ \E d \in TurnDocs : Update(d)
    \/ \E k \in Keys : Remove(k)
    \/ \E v \in AVals : RemoveAll("byA", v)
    \/ \E p \in TurnPatches : Bulk(p)

SpecReads == InitTurns /\ [][NextReads]_vars

----------------------------------------------------------------------------
(* Properties of the Local Store *)

\* C1: update(d) followed by find(key(d)) resolves with d, key being the
\* store's key-extraction function
C1_RoundTrip ==
    last.op = "update" => FindResult(idMap, KeyOf(key, last.arg)) = Resolved(last.arg)

\* C2: find(k) rejects with DoesNotExist(k) once k has been removed by remove(k)
C2_MissingKey ==
    last.op = "remove" => FindResult(idMap, last.arg) = DoesNotExist(last.arg)

\* the positions of all whose document the index accepts
Matching(all, index, value) ==
    {i \in 1..Len(all) : ApplyIndex(index, value, all[i])}

\* C3: findAll(idx, v) resolves with exactly the documents of all for which
\* idx(v, item) holds, each once, in the relative order they have in all
C3_IndexFilter ==
    last.op = "findAll" =>
        LET all == AllResult(idMap).val
            hits == Matching(all, last.arg.index, last.arg.value)
        IN /\ last.result.st = "resolved"
           /\ Len(last.result.val) = Cardinality(hits)
           /\ \A i \in hits :
                 last.result.val[Cardinality({j \in hits : j <= i})] = all[i]

C3_Witness ==
    /\ last.op = "findAll"
    /\ Len(last.result.val) >= 1
    /\ Len(idMap) > Len(last.result.val)
    /\ ApplyIndex(last.arg.index, last.arg.value, idMap[Len(idMap)].v)

\* C4: remove(k) deletes the document under k and resolves true if k is
\* present, leaves the collection alone and resolves false if k is absent
C4_Remove ==
    [][last'.op = "remove" =>
         IF MapHas(idMap, last'.arg)
         THEN /\ idMap' = SelectSeq(idMap, LAMBDA e : e.k # last'.arg)
              /\ last'.result = Resolved(TRUE)
         ELSE /\ idMap' = idMap
              /\ last'.result = Resolved(FALSE)]_vars

\* C5: removeAll(index, value) leaves no matching document, keeps every other
\* document, and resolves true iff some document matched
C5_RemoveAll ==
    [][last'.op = "removeAll" =>
         /\ idMap' = SelectSeq(idMap, LAMBDA e :
                        ~ApplyIndex(last'.arg.index, last'.arg.value, e.v))
         /\ last'.result = Resolved(\E i \in 1..Len(idMap) :
                        ApplyIndex(last'.arg.index, last'.arg.value, idMap[i].v))]_vars

\* C6: update(doc) upserts under key(doc), key being the store's
\* key-extraction function; every other key keeps its document; sorted becomes
\* false if key(doc) was absent and is otherwise unchanged
C6_Update ==
    [][last'.op = "update" =>
         LET doc == last'.arg
             k == KeyOf(key, doc)
         IN /\ Cardinality({i \in 1..Len(idMap') : idMap'[i].k = k}) = 1
            /\ MapGet(idMap', k) = doc
            /\ \A j \in MapKeys(idMap) \cup MapKeys(idMap') :
                  j # k => /\ MapHas(idMap, j) /\ MapHas(idMap', j)
                           /\ MapGet(idMap', j) = MapGet(idMap, j)
            /\ sorted' = IF MapHas(idMap, k) THEN sorted ELSE FALSE
            /\ last'.result.st = "resolved"]_vars

\* C7: bulk(patch) hands the collection and the sorted flag to the patch
\* engine, adopts what the engine returns, sets sorted and resolves with the
\* number of entries of the patch; an empty patch leaves the documents alone
\* (C19 covers the engine throwing instead of returning)
C7_Bulk ==
    [][(last'.op = "bulk" /\ last'.result.st # "thrown") =>
         /\ last'.hint = sorted
         /\ idMap' = PatchEngine(last'.arg, idMap, sorted)
         /\ sorted' = TRUE
         /\ last'.result = Resolved(Len(last'.arg))
         /\ last'.arg = <<>> =>
               /\ {idMap'[i] : i \in 1..Len(idMap')} = {idMap[i] : i \in 1..Len(idMap)}
               /\ Len(idMap') = Len(idMap)
               /\ last'.result.val = 0]_vars

C7_Witness ==
    /\ last.op = "bulk"
    /\ last.result.st = "resolved"
    /\ last.hint = FALSE
    /\ Len(last.arg) >= 1
    /\ Len(idMap) >= 2

\* C8: after bulk of the single entry (k, Mrg({b: Rpl(x)})) on a store holding
\* k, find(k) resolves with a document whose b is x and whose a and uid are
\* those it had before
C8_MergeB ==
    [][(/\ last'.op = "bulk"
        /\ last'.result.st = "resolved"
        /\ Len(last'.arg) = 1
        /\ last'.arg[1].op.t = "Mrg"
        /\ MapHas(idMap, last'.arg[1].k)) =>
         LET k == last'.arg[1].k
             found == FindResult(idMap', k)
         IN /\ found.st = "resolved"
            /\ found.val.b = last'.arg[1].op.x
            /\ found.val.a = MapGet(idMap, k).a
            /\ found.val.uid = MapGet(idMap, k).uid]_vars

C8_Witness ==
    /\ last.op = "bulk"
    /\ last.result.st = "resolved"
    /\ Len(last.arg) = 1
    /\ last.arg[1].op.t = "Mrg"
    /\ Len(idMap) >= 2
    /\ MapHas(idMap, last.arg[1].k)
    /\ MapGet(idMap, last.arg[1].k).uid = last.arg[1].k

----------------------------------------------------------------------------
(* Properties of the Remote Store *)

\* the operation last issued has been answered
Settled == rlast.op # "none" /\ rlast.answered

\* C9: find(k) answered with status 404 rejects with a DoesNotExist error
\* that carries the requested key k
C9_NotFoundKey ==
    (Settled /\ rlast.op = "find" /\ rlast.response.status = 404) =>
        /\ rlast.result.st = "rejected"
        /\ rlast.result.err = "DoesNotExist"
        /\ rlast.result.key = KeyStr(rlast.arg)

\* C10 as first stated: whatever the operation, an answer with status 204
\* resolves as success
C10_Original ==
    (Settled /\ rlast.response.status = 204) => rlast.result.st = "resolved"

\* C10: status 204 yields true and status 200 the decoded body, which update,
\* remove, removeAll and bulk resolve with, which find passes through fromJSON
\* and which findAll maps through fromJSON when it is an array and otherwise
\* rejects with a TypeError; 404 rejects with DoesNotExist, every other status
\* with a generic error, both carrying the response
C10_ResponseHandling ==
    Settled =>
        LET response == rlast.response
            result == rlast.result
            value == IF response.status = 204 THEN JTrue ELSE response.body
        IN /\ (response.status = 204 \/ (response.status = 200 /\ response.body.t # "bad")) =>
                 CASE rlast.op = "find" ->
                        IF value.t = "obj" THEN result = Resolved(value.v[1])
                        ELSE IF value.t = "null"
                             THEN result.st = "rejected" /\ result.err = "TypeError"
                             ELSE result = Resolved(UndefinedFields)
                   [] rlast.op = "findAll" ->
                        IF value.t = "arr" THEN result = Resolved(value.v)
                        ELSE result.st = "rejected" /\ result.err = "TypeError"
                   [] OTHER -> result = Resolved(value)
           /\ response.status = 404 =>
                 /\ result.st = "rejected"
                 /\ result.err = "DoesNotExist"
                 /\ result.response = response
           /\ response.status \notin {200, 204, 404} =>
                 /\ result.st = "rejected"
                 /\ result.err = "Error"
                 /\ result.response = response

C10_Witness ==
    /\ Settled
    /\ rlast.op = "findAll"
    /\ rlast.response.status = 204
    /\ rlast.result.st = "rejected"

\* C11: an operation answered with status 200 and a body that is not JSON
\* rejects with the generic error 'unknown response from server', which is
\* not DoesNotExist, and never resolves
C11_ProtocolError ==
    (Settled /\ rlast.response.status = 200 /\ rlast.response.body.t = "bad") =>
        /\ rlast.result.st = "rejected"
        /\ rlast.result.err = "Error"
        /\ rlast.result.message = "unknown response from server"

\* C12: a store is built whatever its IndexMap holds; findAll(idx, v) or
\* removeAll(idx, v) fails with an error that is not DoesNotExist, issuing no
\* request, while idx has no encoder, and issues a request with the query
\* fragment f=v once addSimpleField(idx, f) has registered one
C12_ConfigurationError ==
    [][(rlast.op = "none" /\ rlast'.op \in {"findAll", "removeAll"}) =>
          IF indexMap[rlast'.arg.index] = NoEncoder
          THEN /\ rlast'.result.st \in {"thrown", "rejected"}
               /\ rlast'.result.err # "DoesNotExist"
               /\ rlast'.fetches = 0
               /\ inflight' = inflight
          ELSE /\ rlast'.fetches = 1
               /\ inflight' = Append(inflight, [o |-> [store |-> rlast'.store,
                                   op |-> rlast'.op, arg |-> rlast'.arg],
                                   request |-> rlast'.request])
               /\ rlast'.request.url.query =
                      <<indexMap[rlast'.arg.index], KeyStr(rlast'.arg.value)>>]_vars

\* C13: each operation hands exactly one request to fetch, find(k) a GET of
\* {endpoint}/items/{k}, findAll(idx, v) a GET of {endpoint}/findAll/{idx}?a=v,
\* update(doc) a PUT of doc to {endpoint}/items/{doc.uid}, remove(k) a DELETE
\* of {endpoint}/items/{k}, removeAll(idx, v) a DELETE of
\* {endpoint}/removeAll/{idx}?a=v and bulk(patch) a POST of patch to
\* {endpoint}/bulk; and it resolves when the answer has status 200 or 204
C13_OneRequest ==
    [][/\ (rlast.op = "none" /\ rlast'.op # "none") =>
             LET op == rlast'.op
                 arg == rlast'.arg
                 request == rlast'.request
             IN /\ rlast'.fetches = 1
                /\ inflight' = Append(inflight,
                       [o |-> [store |-> rlast'.store, op |-> op, arg |-> arg],
                        request |-> request])
                /\ request.base = BaseUrl
                /\ request.method =
                       CASE op \in {"find", "findAll"} -> "GET"
                         [] op = "update" -> "PUT"
                         [] op \in {"remove", "removeAll"} -> "DELETE"
                         [] op = "bulk" -> "POST"
                /\ request.url =
                       CASE op \in {"find", "remove"} ->
                               [path |-> <<rlast'.store, "items", KeyStr(arg)>>,
                                query |-> <<>>]
                         [] op = "update" ->
                               [path |-> <<rlast'.store, "items", KeyStr(arg.uid)>>,
                                query |-> <<>>]
                         [] op \in {"findAll", "removeAll"} ->
                               [path |-> <<rlast'.store, op, arg.index>>,
                                query |-> <<"a", KeyStr(arg.value)>>]
                         [] op = "bulk" ->
                               [path |-> <<rlast'.store, "bulk">>, query |-> <<>>]
                /\ request.body =
                       CASE op = "update" -> JObject(arg)
                         [] op = "bulk" -> [t |-> "patch", v |-> arg]
                         [] OTHER -> NoBody
       /\ (rlast'.answered /\ rlast'.response.status \in {200, 204}) =>
             /\ rlast'.fetches = 1
             /\ rlast'.result.st = "resolved"]_vars

\* C14: updateHeaders(h) leaves the client's headers as they were except
\* that h's entries override, and leaves the requests already issued as they
\* are; every request issued carries the client's headers of that moment,
\* whichever store issues it and whenever that store was built
C14_HeadersAtRequestTime ==
    [][/\ headers' # headers =>
             /\ \E h \in HeaderUpdates :
                   \A n \in HeaderNames :
                       headers'[n] = IF n \in DOMAIN h THEN h[n] ELSE headers[n]
             /\ inflight' = inflight
             /\ rlast' = rlast
       /\ Len(inflight') > Len(inflight) =>
             /\ inflight'[Len(inflight')].request.headers = headers
             /\ rlast'.request.headers = headers
             /\ \A i \in 1..Len(inflight) : inflight'[i] = inflight[i]]_vars

\* a store built before an updateHeaders call has a request in flight that
\* carries the updated headers, both entries differing from the defaults
C14_Witness ==
    /\ Len(inflight) = 1
    /\ inflight[1].request.headers["Authorization"] # NoHeader
    /\ inflight[1].request.headers["Content-Type"] # "application/json"
    /\ headers # inflight[1].request.headers

\* C15: a caller that issues each operation after having observed the
\* completion of the one before has at most one request in flight, issues
\* only when none is in flight, and gets each completion for the request
\* issued last; the server is handed the requests in issue order
C15_ChainedOrder ==
    [][chained =>
          /\ Len(inflight') <= 1
          /\ Len(inflight') > Len(inflight) =>
                /\ inflight = <<>>
                /\ rlast'.result.st = "pending"
          /\ Len(inflight') < Len(inflight) =>
                /\ rlast.result.st = "pending"
                /\ rlast'.result.st # "pending"
                /\ rlast'.pos = 1
                /\ <<rlast'.store, rlast'.op, rlast'.arg>> =
                       <<rlast.store, rlast.op, rlast.arg>>]_vars

\* a chained caller's second operation has been answered
C15_Witness ==
    /\ chained
    /\ Settled
    /\ rlast.op = "find"
    /\ rlast.arg = 2
    /\ rlast.pos = 1

\* without chaining, the operation issued first completes first ...
C15_InOrder ==
    /\ ~chained
    /\ Settled
    /\ rlast.pos = 1
    /\ Len(inflight) = 1

\* ... or the one issued second does
C15_OutOfOrder ==
    /\ ~chained
    /\ Settled
    /\ rlast.pos = 2
    /\ Len(inflight) = 1

----------------------------------------------------------------------------
(* Further properties of the Local Store *)

ReplaceOnly(patch) == \A i \in 1..Len(patch) : patch[i].op.t = "Rpl"

\* C16: once bulk(patch) has run with a patch of Replace operations only,
\* running bulk(patch) again leaves the collection, its order and the sorted
\* flag as the first run left them
C16_ReplaceIdempotent ==
    [][(last'.op = "bulk" /\ last'.result.st = "resolved" /\ ReplaceOnly(last'.arg)) =>
          /\ BulkAdopt(idMap', PatchEngine(last'.arg, idMap', BulkHint(sorted'))) = idMap'
          /\ sorted' = TRUE]_vars

C16_Witness ==
    /\ last.op = "bulk"
    /\ last.result.st = "resolved"
    /\ Len(last.arg) >= 1
    /\ ReplaceOnly(last.arg)
    /\ last.hint = FALSE
    /\ Len(idMap) >= 2

\* the collection iterates in non-decreasing comparator order, the default
\* comparator comparing the documents' keys
InComparatorOrder(m) ==
    \A i \in 1..Len(m) - 1 : defaultComparator(key, m[i].v, m[i + 1].v) <= 0

\* C17: whenever sorted is true, the collection iterates in non-decreasing
\* comparator order
C17_Sortedness == sorted => InComparatorOrder(idMap)

\* C18: a bulk call made while sorted is true, that is after the bulk call
\* that followed the last update of a new key, yields a collection in
\* comparator order
C18_SortedFlag ==
    [][(last'.op = "bulk" /\ last'.result.st = "resolved" /\ sorted) =>
          InComparatorOrder(idMap')]_vars

\* C19: when the patch engine throws during bulk(patch), the collection and
\* the sorted flag stay as they were before the call and the caller gets the
\* engine's error as the engine raised it
C19_BulkFailure ==
    [][(last'.op = "bulk" /\ last'.result.st # "resolved") =>
          /\ idMap' = idMap
          /\ sorted' = sorted
          /\ last'.result.err = last'.result.raised
          /\ last'.result.err \in EngineErrors]_vars

C19_Witness ==
    /\ last.op = "bulk"
    /\ last.result.st = "thrown"
    /\ Len(last.arg) >= 1
    /\ sorted = FALSE
    /\ Len(idMap) >= 2

----------------------------------------------------------------------------
(* Error propagation on both backends *)

\* what a failed operation hands its caller
Failures == {"rejected", "thrown"}

\* C20: a store operation that fails (absent key, unregistered index,
\* non-2xx answer, failed fetch, failing patch engine) returns a completion
\* that rejects: it neither throws at the call site nor resolves
C20_Propagation ==
    /\ last.result.st # "thrown"
    /\ rlast.result.st # "thrown"
    /\ (last.op = "find" /\ ~MapHas(idMap, last.arg)) => last.result.st = "rejected"
    /\ (rlast.op # "none" /\ rlast.fetches = 1 /\ ~rlast.answered
            /\ rlast.result.st # "pending") => rlast.result.st = "rejected"
    /\ (Settled /\ rlast.response.status \notin {200, 201, 204}) =>
            rlast.result.st = "rejected"

----------------------------------------------------------------------------
(* Properties of the Local Store, turn by turn *)

Mutators == {"update", "remove", "removeAll", "bulk"}

\* a step in which the caller makes a call
CallStep == last.op = "none" /\ last'.op # "none"

C22_ReadsPure ==
    [][/\ (CallStep /\ last'.op \in {"find", "all", "findAll"}) =>
             /\ idMap' = idMap
             /\ sorted' = sorted
             /\ held' = held
       /\ held' # held =>
             /\ last.op \in {"all", "findAll"}
             /\ held' = last.result.val
             /\ idMap' = idMap]_vars

\* the caller holds an array of two documents while an update made since
\* has left the collection with other values
C22_Witness ==
    /\ Len(held) = 2
    /\ last.op = "update"
    /\ MapValues(idMap) # held
    /\ Len(idMap) = 2

====
